---- MODULE Spec2Model ----
(***************************************************************************)
(* Model of the med-scan-reminder browser app: the localStorage reminder   *)
(* collection (src/lib/api.ts), the poll-based due-check                   *)
(* (src/lib/reminderScheduler.ts), the per-reminder-timer scheduler        *)
(* (second half of src/lib/voiceService.ts) and the auto-create flow of    *)
(* ReminderForm.                                                           *)
(*                                                                         *)
(* Time is counted in hours (the unit of Reminder.frequency).  The 300 ms  *)
(* storage latency of api.ts and the <= 60 s poll period are far below one *)
(* unit, so the clock does not advance while a storage call is in flight   *)
(* and an armed poll timer may fire at any clock value.                    *)
(*                                                                         *)
(* Every action is one JavaScript macrotask together with the microtask    *)
(* continuations it releases: the event loop never interleaves anything    *)
(* inside such a step.                                                     *)
(***************************************************************************)
EXTENDS Integers, Sequences, FiniteSets, TLC

\* ---------------------------------------------------------------- bounds
MaxTime == 2
MaxIds == 2
MaxChecks == 2
MaxNotifs == 2

\* ------------------------------------------------------- program constants
DefaultFrequency == 24
DefaultDuration == 7

VARIABLES
  clock,            \* current time, hours
  store,            \* localStorage["prescription-reminders"], parsed: Seq of records
  nextId,           \* number of ids handed out by crypto.randomUUID()
  notified,         \* log of sendReminderNotification calls
  deleted,          \* ids whose deleteReminder has completed
  pollTimers,       \* armed setTimeout(checkRemindersNow, ...) timers
  pollStarted,      \* the poll-based initReminderScheduler has been called
  checks,           \* invocations of the poll-based checkRemindersNow
  form,             \* the mounted ReminderForm: props, state, ref, handler
  isInitialized,    \* timer-based scheduler: module flag
  intervals,        \* timer-based scheduler: setInterval(scheduleAllReminders) installed
  activeReminders,  \* timer-based scheduler: Map id -> handle of its timeout (0: none)
  timeouts,         \* timer-based scheduler: armed single-shot timeouts
  calls,            \* timer-based scheduler: async calls awaiting storage
  pending,          \* api.ts calls whose 300 ms timeout has not run yet
  outcome,          \* how the latest api.ts call ended
  cleared,          \* deleteAllReminders has completed and nothing was created since
  apiCalls,         \* number of api.ts calls that entered their timeout so far
  scan,             \* the ScanPrescription page: its state
  permission,       \* Notification.permission
  delivery,         \* channels used by the latest sendReminderNotification call
  parsed,           \* the latest extractMedicineDetails call: its text and its result
  labelled,         \* the latest getFrequencyHours call: its label and its result
  unloading         \* beforeunload: "no", or how it was dispatched to the window:
                    \* "unheard" (no listener yet) or "torn" (the listeners ran)

baseVars == <<clock, store, nextId, notified, deleted>>
pollVars == <<pollTimers, pollStarted, checks>>
formVars == <<form>>
timerVars == <<isInitialized, intervals, activeReminders, timeouts, calls>>
apiVars == <<pending, outcome, cleared, apiCalls>>
scanVars == <<scan>>
notifyVars == <<permission, delivery>>
parseVars == <<parsed, labelled>>
pageVars == <<unloading>>
vars == <<baseVars, pollVars, formVars, timerVars, apiVars, scanVars, notifyVars, parseVars,
          pageVars>>

\* ------------------------------------------------------------------ dates
\* An in-memory Date and its JSON form (ISO-8601 string) are distinct values.
DateOf(t) == <<"Date", t>>
\* a serialisation that keeps only every second hour
toISOStringCoarse(d) == <<"ISO", (d[2] \div 2) * 2>>
toISOString(d) == <<"ISO", d[2]>>
\* new Date(x) accepts a Date or an ISO string
NewDate(x) == <<"Date", x[2]>>
getTime(d) == d[2]
\* an addHours that adds nothing
addHoursNone(d, h) == d

\* date-fns addHours / Date.setHours(getHours() + h)
addHours(d, h) == <<"Date", d[2] + h>>

NULL == "null"
\* x || null
orNull(str) == IF str = "" THEN NULL ELSE str

\* ----------------------------------------------------------------- storage
\* JSON.stringify turns every Date into its ISO string
Stringify(r) ==
  [f \in DOMAIN r |->
     IF f \in {"nextDue", "createdAt"} THEN toISOString(r[f]) ELSE r[f]]

saveReminders(rs) == [i \in 1..Len(rs) |-> Stringify(rs[i])]

getReminders == store

\* { ...a, ...b }
Spread(a, b) ==
  [f \in (DOMAIN a) \cup (DOMAIN b) |-> IF f \in DOMAIN b THEN b[f] ELSE a[f]]

\* the first argument of updateReminder/deleteReminder as the caller passed it
IdArg(id) == [kind |-> "id", v |-> id]
ObjArg(r) == [kind |-> "object", v |-> r]

\* r.id === id
StrictEq(rid, arg) == arg.kind = "id" /\ arg.v = rid

\* reminders.findIndex(r => r.id === id), 1-based, 0 when absent
findIndex(rs, arg) ==
  IF \E i \in 1..Len(rs) : StrictEq(rs[i].id, arg)
  THEN CHOOSE i \in 1..Len(rs) :
         /\ StrictEq(rs[i].id, arg)
         /\ \A j \in 1..(i-1) : ~StrictEq(rs[j].id, arg)
  ELSE 0

\* an updateReminder that stores the updates under an id it did not find
updateReminderUpsert(rs, arg, updates) ==
  LET index == findIndex(rs, arg)
  IN IF index # 0
     THEN saveReminders([rs EXCEPT ![index] = Spread(rs[index], updates)])
     ELSE saveReminders(Append(rs, Spread([id |-> arg.v], updates)))

\* an updateReminder that also blanks the name of the reminder it updates
updateReminderBlanking(rs, arg, updates) ==
  LET index == findIndex(rs, arg)
  IN IF index # 0
     THEN saveReminders([rs EXCEPT ![index] =
                           Spread(Spread(rs[index], updates), [medicineName |-> ""])])
     ELSE rs

\* body of updateReminder's timeout: the collection it saves
updateReminderStore(rs, arg, updates) ==
  LET index == findIndex(rs, arg)
  IN IF index # 0
     THEN saveReminders([rs EXCEPT ![index] = Spread(rs[index], updates)])
     ELSE rs

\* body of deleteReminder's timeout
deleteReminderStore(rs, arg) ==
  LET index == findIndex(rs, arg)
  IN IF index # 0
     THEN SubSeq(rs, 1, index - 1) \o SubSeq(rs, index + 1, Len(rs))
     ELSE rs

\* a create that hands out one id to every reminder
newReminderSameId(data, id) ==
  Spread(data, [id |-> 1, createdAt |-> DateOf(clock)])

\* createReminder / createReminders: ids are fresh, createdAt is now
newReminder(data, id) ==
  Spread(data, [id |-> id, createdAt |-> DateOf(clock)])

createRemindersStore(rs, datas, firstId) ==
  saveReminders(rs \o [i \in 1..Len(datas) |-> newReminder(datas[i], firstId + i - 1)])

StoredIds == {store[i].id : i \in 1..Len(store)}
Stored(id) == store[findIndex(store, IdArg(id))]

\* ------------------------------------------------------------ notification
\* sendReminderNotification(reminder): recorded with the nextDue stored for
\* the reminder at that moment (-1 when it is no longer stored)
StoredDue(rs, id) ==
  IF findIndex(rs, IdArg(id)) # 0
  THEN getTime(NewDate(rs[findIndex(rs, IdArg(id))].nextDue))
  ELSE -1

sendReminderNotification(log, reminder) ==
  Append(log, [id |-> reminder.id, due |-> StoredDue(store, reminder.id), at |-> clock])

\* ------------------------------------------------------ poll-based scheduler
Procs == 1..MaxChecks

IdleCheck ==
  [pc |-> "idle", reminders |-> <<>>, now |-> 0, i |-> 0,
   newNextDue |-> DateOf(0)]

\* a due test that leaves out the reminders whose course of duration days
\* has ended
DueFromWithinCourse(rs, now, from) ==
  {j \in from..Len(rs) :
     /\ getTime(NewDate(rs[j].nextDue)) <= now
     /\ now < getTime(NewDate(rs[j].createdAt)) + 24 * rs[j].duration}

\* positions of the snapshot, from index from on, that are due at time now
DueFrom(rs, now, from) ==
  {j \in from..Len(rs) : getTime(NewDate(rs[j].nextDue)) <= now}

FirstDue(rs, now, from) ==
  CHOOSE j \in DueFrom(rs, now, from) : \A k \in DueFrom(rs, now, from) : j <= k

\* an invocation starts in the lowest free slot (the slots are interchangeable)
FreeSlot(p) ==
  /\ checks[p].pc = "idle"
  /\ \A q \in Procs : q < p => checks[q].pc # "idle"

\* scheduleNextCheck
scheduleNextCheck(n) == n + 1

\* the for-loop of checkRemindersNow from position from up to its next await
\* (or to the function's end)
ContinueLoop(p, rs, now, from, remindersUpdated) ==
  IF DueFrom(rs, now, from) # {}
  THEN LET j == FirstDue(rs, now, from)
       IN /\ Len(notified) < MaxNotifs
          /\ notified' = sendReminderNotification(notified, rs[j])
          /\ checks' = [checks EXCEPT ![p] =
                [pc |-> "update", reminders |-> rs, now |-> now, i |-> j,
                 newNextDue |-> addHours(DateOf(clock), rs[j].frequency)]]
          /\ UNCHANGED pollTimers
  ELSE /\ checks' = [checks EXCEPT ![p] = IdleCheck]
       /\ pollTimers' = IF remindersUpdated THEN scheduleNextCheck(pollTimers)
                        ELSE pollTimers
       /\ UNCHANGED notified

\* poll-based initReminderScheduler, called once at app start
InitPollScheduler ==
  /\ ~pollStarted
  /\ pollStarted' = TRUE
  /\ pollTimers' = scheduleNextCheck(pollTimers)
  /\ UNCHANGED <<baseVars, checks, formVars, timerVars,
                 apiVars, scanVars, notifyVars, parseVars, pageVars>>

\* an armed poll timer fires: checkRemindersNow starts and awaits fetchReminders
PollTimerFire(p) ==
  /\ pollTimers > 0
  /\ FreeSlot(p)
  /\ pollTimers' = pollTimers - 1
  /\ checks' = [checks EXCEPT ![p] = [IdleCheck EXCEPT !.pc = "fetch"]]
  /\ UNCHANGED <<baseVars, pollStarted, formVars, timerVars,
                 apiVars, scanVars, notifyVars, parseVars, pageVars>>

\* fetchReminders resolves: snapshot, now, and the loop up to its first await
CheckFetched(p) ==
  /\ checks[p].pc = "fetch"
  /\ ContinueLoop(p, getReminders, clock, 1, FALSE)
  /\ UNCHANGED <<clock, store, nextId, pollStarted, deleted, formVars, timerVars,
                 apiVars, scanVars, notifyVars, parseVars, pageVars>>

\* updateReminder(reminder.id, {nextDue}) settles and the loop goes on
CheckUpdated(p) ==
  /\ checks[p].pc = "update"
  /\ LET c == checks[p]
         arg == IdArg(c.reminders[c.i].id)
     IN IF findIndex(getReminders, arg) # 0
        THEN /\ store' = updateReminderStore(getReminders, arg, [nextDue |-> c.newNextDue])
             /\ ContinueLoop(p, c.reminders, c.now, c.i + 1, TRUE)
        ELSE \* rejected: the catch of checkRemindersNow returns false
             /\ checks' = [checks EXCEPT ![p] = IdleCheck]
             /\ UNCHANGED <<store, pollTimers, notified>>
  /\ UNCHANGED <<clock, nextId, pollStarted, deleted, formVars, timerVars,
                 apiVars, scanVars, notifyVars, parseVars, pageVars>>

\* ------------------------------------------------------------ user actions
\* values the manual form can submit: its number inputs carry min="1"
ManualFrequencies == {1}
ManualDurations == {1}

\* AddReminderManual.handleSubmit: the record it hands to createReminder
manualReminderData(medicineName, dosage, frequencyNum, durationNum, notes) ==
  [medicineName |-> medicineName, dosage |-> dosage,
   frequency |-> frequencyNum,
   nextDue |-> addHours(DateOf(clock), frequencyNum),
   duration |-> durationNum,
   notes |-> orNull(notes)]

\* AddReminderManual.handleSubmit: validate, createReminder, then
\* checkRemindersNow() (which starts by awaiting fetchReminders)
handleSubmit(p, medicineName, dosage, frequencyNum, durationNum, notes) ==
  /\ medicineName # "" /\ dosage # ""
  /\ nextId < MaxIds
  /\ FreeSlot(p)
  /\ store' = createRemindersStore(getReminders,
                <<manualReminderData(medicineName, dosage, frequencyNum, durationNum, notes)>>,
                nextId + 1)
  /\ nextId' = nextId + 1
  /\ checks' = [checks EXCEPT ![p] = [IdleCheck EXCEPT !.pc = "fetch"]]
  /\ UNCHANGED <<clock, pollTimers, pollStarted, notified, deleted, formVars, timerVars,
                 apiVars, scanVars, notifyVars, parseVars, pageVars>>

ManualAdd ==
  \E p \in Procs, f \in ManualFrequencies, d \in ManualDurations :
    handleSubmit(p, "Med", "1 tab", f, d, "")

\* values reminderSchema of EditReminderDialog lets through
EditValues ==
  [medicineName : {"Med X"}, dosage : {"2 tab"}, frequency : {2},
   duration : {5}, notes : {""}, nextDue : {DateOf(clock + 1)}]

\* EditReminderDialog.onSubmit: updateReminder(reminder.id, {...data}) settles
EditReminder ==
  \E id \in 1..nextId, data \in EditValues :
    /\ findIndex(getReminders, IdArg(id)) # 0
    /\ store' = updateReminderStore(getReminders, IdArg(id), data)
    /\ UNCHANGED <<clock, nextId, notified, deleted, pollVars, formVars, timerVars,
                   apiVars, scanVars, notifyVars, parseVars, pageVars>>

\* ReminderCard.handleDelete / ReminderDetail delete: deleteReminder(id) settles
DeleteReminder ==
  \E id \in 1..nextId :
    /\ findIndex(getReminders, IdArg(id)) # 0
    /\ store' = deleteReminderStore(getReminders, IdArg(id))
    /\ deleted' = deleted \cup {id}
    /\ UNCHANGED <<clock, nextId, notified, pollVars, formVars, timerVars,
                   apiVars, scanVars, notifyVars, parseVars, pageVars>>

\* ------------------------------------------------------------------ parser
\* A prescription text is given by what the parser's regular expressions find
\* in it: the matches of format1Regex, the matches of format2Regex and the
\* table rows (lines holding "|") whose name cell matches medNamePattern.
\* A dosage text: its string, the digits of its D-D-D pattern (<<>> if none),
\* the slot words it holds and the N of "N hourly" (-1 if none).
\* A duration text: its string and the numbers before "days", "weeks" and
\* "month" (-1: word absent; the texts of the model put a number before
\* every "days" and "weeks" they hold, so these words are present exactly
\* when their number is). "month" may also stand without a number, or after
\* the word "one".
NoNum == -1
BareMonth == -2
OneMonth == -3

Dosage(text, ddd, morning, night, hourly) ==
  [text |-> text, ddd |-> ddd, morning |-> morning, night |-> night, hourly |-> hourly]

Duration(text, days, weeks, month) ==
  [text |-> text, days |-> days, weeks |-> weeks, month |-> month]

\* String.prototype.trim on the strings of the model
trim(str) == IF str \in {" ", "  "} THEN "" ELSE str

\* String.prototype.toLowerCase on the frequency labels of the model
toLowerCase(str) ==
  CASE str = "Twice Daily" -> "twice daily"
    [] str = "Thrice Daily" -> "thrice daily"
    [] OTHER -> str

\* number of nonzero digits of a D-D-D match
timesPerDay(ddd) == Cardinality({k \in 1..3 : ddd[k] > 0})

dddFrequency(ddd) ==
  IF timesPerDay(ddd) = 3 THEN <<"thrice daily">>
  ELSE IF timesPerDay(ddd) = 2 THEN <<"twice daily">>
  ELSE <<"once daily">>

\* format 1: duration and frequency of one match
format1Duration(d) ==
  IF d.days # NoNum THEN d.days
  ELSE IF d.month # NoNum THEN 30
  ELSE IF d.weeks # NoNum THEN d.weeks * 7
  ELSE DefaultDuration

format1Frequency(g) ==
  IF g.ddd # <<>> THEN dddFrequency(g.ddd)
  ELSE IF g.morning /\ g.night THEN <<"twice daily">>
  ELSE <<"once daily">>

format1Medicine(m) ==
  [name |-> trim(m.name), dosage |-> trim(m.dosage.text),
   frequency |-> format1Frequency(m.dosage),
   duration |-> format1Duration(m.duration), notes |-> trim(m.duration.text)]

\* format 2
format2Duration(d) ==
  IF d.month # NoNum THEN 30
  ELSE IF d.weeks # NoNum THEN d.weeks * 7
  ELSE IF d.days # NoNum THEN d.days
  ELSE DefaultDuration

format2Frequency(g) ==
  IF g.ddd # <<>> THEN dddFrequency(g.ddd) ELSE <<"once daily">>

format2Medicine(m) ==
  [name |-> trim(m.name) \o (IF m.strength # "" THEN " (" \o trim(m.strength) \o ")" ELSE ""),
   dosage |-> trim(m.dosage.text),
   frequency |-> format2Frequency(m.dosage),
   duration |-> format2Duration(m.duration), notes |-> ""]

\* table rows
tableFrequency(g) ==
  IF g.morning /\ g.night THEN <<"twice daily">>
  ELSE IF g.hourly # NoNum THEN <<"every", g.hourly, "hours">>
  ELSE <<"once daily">>

tableDuration(d) ==
  IF d.days # NoNum THEN d.days
  ELSE IF d.weeks # NoNum THEN d.weeks * 7
  ELSE IF d.month >= 0 \/ d.month = OneMonth THEN 30
  ELSE DefaultDuration

tableMedicine(m) ==
  [name |-> trim(m.name), dosage |-> m.dosage.text,
   frequency |-> tableFrequency(m.dosage),
   duration |-> tableDuration(m.duration), notes |-> ""]

\* a parser that returns what every strategy finds
extractMedicineDetailsAll(text) ==
  [k \in 1..Len(text.format1) |-> format1Medicine(text.format1[k])]
    \o [k \in 1..Len(text.format2) |-> format2Medicine(text.format2[k])]
    \o [k \in 1..Len(text.table) |-> tableMedicine(text.table[k])]

MapSeq(Op(_), sq) == [k \in 1..Len(sq) |-> Op(sq[k])]

extractMedicineDetails(text) ==
  IF Len(text.format1) > 0 THEN MapSeq(format1Medicine, text.format1)
  ELSE IF Len(text.format2) > 0 THEN MapSeq(format2Medicine, text.format2)
  ELSE MapSeq(tableMedicine, text.table)

\* ------------------------------------------------------------ ReminderForm
\* a getFrequencyHours that knows the daily labels only
getFrequencyHoursDaily(frequency) ==
  CASE toLowerCase(frequency[1]) = "twice daily" -> 12
    [] toLowerCase(frequency[1]) = "thrice daily" -> 8
    [] OTHER -> DefaultFrequency

getFrequencyHours(frequency) ==
  IF Len(frequency) = 3 /\ frequency[1] = "every" /\ frequency[3] = "hours"
  THEN frequency[2]
  ELSE CASE toLowerCase(frequency[1]) = "twice daily" -> 12
         [] toLowerCase(frequency[1]) = "thrice daily" -> 8
         [] OTHER -> DefaultFrequency

reminderInput(medicine) ==
  [medicineName |-> medicine.name, dosage |-> medicine.dosage,
   frequency |-> getFrequencyHours(medicine.frequency),
   nextDue |-> addHours(DateOf(clock), getFrequencyHours(medicine.frequency)),
   duration |-> medicine.duration, notes |-> orNull(medicine.notes)]

reminderInputs(medicines) == MapSeq(reminderInput, medicines)

\* the extracted texts ReminderForm is mounted over
Texts ==
  [ card0Days |->
      [format1 |-> <<[name |-> "TAB. A", dosage |-> Dosage("1-0-1", <<1, 0, 1>>, FALSE, FALSE, NoNum),
                      duration |-> Duration("0 Days", 0, NoNum, NoNum)]>>,
       format2 |-> <<>>, table |-> <<>>],
    row0Hourly |->
      [format1 |-> <<>>, format2 |-> <<>>,
       table |-> <<[name |-> "B", dosage |-> Dosage("0 hourly", <<>>, FALSE, FALSE, 0),
                    duration |-> Duration("0 days", 0, NoNum, NoNum)]>>],
    row1Hourly |->
      [format1 |-> <<>>, format2 |-> <<>>,
       table |-> <<[name |-> "C", dosage |-> Dosage("1 hourly", <<>>, FALSE, FALSE, 1),
                    duration |-> Duration("1 week", NoNum, 1, NoNum)]>>],
    nothing |-> [format1 |-> <<>>, format2 |-> <<>>, table |-> <<>>] ]

TextNames == DOMAIN Texts

\* ---- the parser and getFrequencyHours applied to generated inputs
\* largest N of an "N hourly" dosage and of an "every N hours" label
MaxHours == 6

ParseDosages ==
  [text : {"d"},
   ddd : {<<>>, <<0, 0, 0>>, <<0, 0, 1>>, <<1, 0, 1>>, <<1, 2, 1>>},
   morning : BOOLEAN, night : BOOLEAN, hourly : {NoNum, MaxHours}]

ParseDurations ==
  [text : {"t"}, days : {NoNum, 5}, weeks : {NoNum, 2},
   month : {NoNum, BareMonth, OneMonth, 2}]

plainDosage == Dosage("d", <<>>, FALSE, FALSE, NoNum)
plainDuration == Duration("t", 5, NoNum, NoNum)

ParseMatch(name, dosage, duration) ==
  [name |-> name, strength |-> "", dosage |-> dosage, duration |-> duration]

\* the text in which strategy s finds the matches ms and the others nothing
OnlyIn(s, ms) ==
  [format1 |-> IF s = "format1" THEN ms ELSE <<>>,
   format2 |-> IF s = "format2" THEN ms ELSE <<>>,
   table |-> IF s = "table" THEN ms ELSE <<>>]

Strategies == {"format1", "format2", "table"}

\* how many matches a strategy finds in a text of the third family below
Found(n, name) ==
  [k \in 1..n |-> ParseMatch(name, plainDosage, plainDuration)]

ParseTexts ==
  {OnlyIn(s, <<ParseMatch("A", g, plainDuration)>>) : s \in Strategies, g \in ParseDosages}
    \cup {OnlyIn(s, <<ParseMatch("A", plainDosage, d)>>) : s \in Strategies, d \in ParseDurations}
    \cup {[format1 |-> Found(a, "F1"), format2 |-> Found(b, "F2"), table |-> Found(c, "T")] :
             a \in 0..2, b \in 0..2, c \in 0..2}

Labels ==
  {<<"once daily">>, <<"twice daily">>, <<"thrice daily">>, <<"Twice Daily">>,
   <<"weekly">>, <<"">>}
    \cup {<<"every", n, "hours">> : n \in 0..MaxHours}

NoParse == [called |-> FALSE, variant |-> "current", text |-> Texts.nothing, medicines |-> <<>>]
NoLabel == [called |-> FALSE, label |-> <<"">>, hours |-> 0]

\* const medicines = extractMedicineDetails(extractedText)
ParseText ==
  \E t \in ParseTexts :
    /\ parsed' = [called |-> TRUE, variant |-> "current", text |-> t,
                  medicines |-> extractMedicineDetails(t)]
    /\ UNCHANGED <<baseVars, pollVars, formVars, timerVars, apiVars, scanVars,
                   notifyVars, labelled, pageVars>>

\* ---- the older variant of the parser: table rows, then list lines, then
\* any line naming a kind of medicine
\* Math.ceil(a / b)
ceilDiv(a, b) == (a + b - 1) \div b

\* x || 7 for a number or null
orDefault(x) == IF x = NoNum \/ x = 0 THEN DefaultDuration ELSE x

\* a dosage text of this variant: the N of "N hourly", the slot words it
\* holds and the generic indicator it holds (0: none, 2: "twice", 3: "three times")
determineDosageFrequency(g) ==
  LET doseCount == Cardinality({w \in {"morning", "night", "afternoon", "evening"} : g[w]})
  IN IF g.hourly # NoNum THEN <<"every", g.hourly, "hours">>
     ELSE IF doseCount >= 3 THEN <<"thrice daily">>
     ELSE IF doseCount = 2 THEN <<"twice daily">>
     ELSE IF g.times = 3 THEN <<"thrice daily">>
     ELSE IF g.times = 2 THEN <<"twice daily">>
     ELSE <<"once daily">>

\* extractDuration(parts): d describes the duration cell and the "Tot:" cell,
\* g the cell naming Morning, Night, Daily or Hourly
extractDuration(d, g) ==
  IF d.days # NoNum THEN d.days
  ELSE IF d.weeks # NoNum THEN d.weeks * 7
  ELSE IF d.tot # NoNum /\ (g.morning \/ g.night \/ g.hourly # NoNum)
       THEN ceilDiv(d.tot, CASE determineDosageFrequency(g) = <<"twice daily">> -> 2
                             [] determineDosageFrequency(g) = <<"thrice daily">> -> 3
                             [] OTHER -> 1)
  ELSE DefaultDuration

\* extractDurationFromString(dosageInfo): null is NoNum
extractDurationFromString(d, g) ==
  IF d.days # NoNum THEN d.days
  ELSE IF d.weeks # NoNum THEN d.weeks * 7
  ELSE IF d.months # NoNum THEN d.months * 30
  ELSE IF d.tot # NoNum
       THEN IF g.times = 2 \/ (g.morning /\ g.night) THEN ceilDiv(d.tot, 2) ELSE d.tot
  ELSE NoNum

rowMedicine(m) ==
  [name |-> m.name, dosage |-> m.dosage.text,
   frequency |-> determineDosageFrequency(m.dosage),
   duration |-> extractDuration(m.duration, m.dosage), notes |-> ""]

lineMedicine(m) ==
  [name |-> m.name, dosage |-> m.dosage.text,
   frequency |-> determineDosageFrequency(m.dosage),
   duration |-> orDefault(extractDurationFromString(m.duration, m.dosage)), notes |-> ""]

\* the rows of a text in which extractMedicineName finds a name
namedRows(rows) == SelectSeq(rows, LAMBDA r : r.named)

extractMedicineDetailsOlder(text) ==
  LET hasFoundTable == Len(text.rows) > 0
      fromRows == [k \in 1..Len(namedRows(text.rows)) |-> rowMedicine(namedRows(text.rows)[k])]
      fromList == IF ~hasFoundTable \/ Len(fromRows) = 0
                  THEN fromRows \o [k \in 1..Len(text.list) |-> lineMedicine(text.list[k])]
                  ELSE fromRows
  IN IF Len(fromList) = 0
     THEN [k \in 1..Len(text.fallback) |-> lineMedicine(text.fallback[k])]
     ELSE fromList

OlderDosage(hourly, morning, night, evening, times) ==
  [text |-> "d", hourly |-> hourly, morning |-> morning, night |-> night,
   afternoon |-> FALSE, evening |-> evening, times |-> times]

OlderDosages ==
  {OlderDosage(NoNum, FALSE, FALSE, FALSE, 0), OlderDosage(MaxHours, TRUE, FALSE, FALSE, 0),
   OlderDosage(NoNum, TRUE, TRUE, FALSE, 0), OlderDosage(NoNum, TRUE, TRUE, TRUE, 0),
   OlderDosage(NoNum, FALSE, FALSE, FALSE, 2)}

OlderDuration(days, weeks, months, tot) ==
  [text |-> "t", days |-> days, weeks |-> weeks, months |-> months, tot |-> tot]

OlderDurations ==
  {OlderDuration(NoNum, NoNum, NoNum, NoNum), OlderDuration(0, NoNum, NoNum, NoNum),
   OlderDuration(NoNum, 2, NoNum, NoNum), OlderDuration(NoNum, NoNum, 2, NoNum),
   OlderDuration(NoNum, NoNum, NoNum, 5)}

plainOlderDosage == OlderDosage(NoNum, FALSE, FALSE, FALSE, 0)
plainOlderDuration == OlderDuration(5, NoNum, NoNum, NoNum)

OlderMatch(name, named, dosage, duration) ==
  [name |-> name, named |-> named, dosage |-> dosage, duration |-> duration]

OlderRows ==
  {<<>>, <<OlderMatch("R", FALSE, plainOlderDosage, plainOlderDuration)>>,
   <<OlderMatch("R", TRUE, plainOlderDosage, plainOlderDuration)>>,
   <<OlderMatch("R", FALSE, plainOlderDosage, plainOlderDuration),
     OlderMatch("R", TRUE, plainOlderDosage, plainOlderDuration)>>}

OlderLines(name) ==
  {<<>>, <<OlderMatch(name, TRUE, plainOlderDosage, plainOlderDuration)>>}

OlderTexts ==
  {[rows |-> r, list |-> l, fallback |-> f] :
     r \in OlderRows, l \in OlderLines("L"), f \in OlderLines("F")}
    \cup {[rows |-> <<OlderMatch("R", TRUE, g, d)>>, list |-> <<>>, fallback |-> <<>>] :
            g \in OlderDosages, d \in OlderDurations}
    \cup {[rows |-> <<>>, list |-> <<OlderMatch("L", TRUE, g, d)>>, fallback |-> <<>>] :
            g \in OlderDosages, d \in OlderDurations}

ParseTextOlder ==
  \E t \in OlderTexts :
    /\ parsed' = [called |-> TRUE, variant |-> "older", text |-> t,
                  medicines |-> extractMedicineDetailsOlder(t)]
    /\ UNCHANGED <<baseVars, pollVars, formVars, timerVars, apiVars, scanVars,
                   notifyVars, labelled, pageVars>>

\* getFrequencyHours(frequency)
FrequencyHours ==
  \E l \in Labels :
    /\ labelled' = [called |-> TRUE, label |-> l, hours |-> getFrequencyHours(l)]
    /\ UNCHANGED <<baseVars, pollVars, formVars, timerVars, apiVars, scanVars,
                   notifyVars, parsed, pageVars>>

\* effect invocations per commit (React StrictMode invokes a mount effect twice)
MaxEffectRuns == 2

Unmounted ==
  [mounted |-> FALSE, extractedText |-> "nothing", isSubmitting |-> FALSE,
   autoCreateComplete |-> FALSE, createRemindersRef |-> FALSE,
   seenComplete |-> FALSE, phase |-> "idle", runs |-> 0,
   inFlight |-> 0, created |-> 0, idsAtMount |-> 0]

medicinesOf(f) == extractMedicineDetails(Texts[f.extractedText])

\* the handler without its in-flight mark
enterHandlerUnmarked(f) == [f EXCEPT !.isSubmitting = TRUE]

\* createRemindersRef.current = true; setIsSubmitting(true)
enterHandler(f) ==
  [f EXCEPT !.createRemindersRef = TRUE, !.isSubmitting = TRUE]

\* if (createRemindersRef.current) return
handlerEnters(f) == ~f.createRemindersRef

\* catch: createRemindersRef.current = false
catchHandler(f) == [f EXCEPT !.createRemindersRef = FALSE]

\* finally: setIsSubmitting(false); setAutoCreateComplete(true)
finallyHandler(f) == [f EXCEPT !.isSubmitting = FALSE, !.autoCreateComplete = TRUE]

\* if (medicines.length === 0) { ...; return }  (the handler's early return)
emptyResultHandler(f) ==
  [f EXCEPT !.createRemindersRef = FALSE, !.isSubmitting = FALSE,
            !.autoCreateComplete = TRUE]

\* the render shows the "Add Reminder Manually" button
offersManualEntry(f) ==
  ~f.isSubmitting /\ Len(medicinesOf(f)) = 0 /\ f.autoCreateComplete

\* the condition of the auto-create effect, on the values its closure holds
effectCondition(f) ==
  /\ Len(medicinesOf(f)) > 0
  /\ ~f.seenComplete
  /\ ~f.createRemindersRef

\* ScanPrescription renders <ReminderForm extractedText=... />: first commit
MountForm(t) ==
  /\ ~form.mounted
  /\ form' = [Unmounted EXCEPT !.mounted = TRUE, !.extractedText = t, !.phase = "effects",
                               !.idsAtMount = nextId]
  /\ UNCHANGED <<baseVars, pollVars, timerVars,
                 apiVars, scanVars, notifyVars, parseVars, pageVars>>

\* a later commit (state change or parent render): the effect's dependencies
\* hold a fresh medicines array, so the effect runs again
Rerender ==
  /\ form.mounted /\ form.phase = "idle"
  /\ form' = [form EXCEPT !.seenComplete = form.autoCreateComplete,
                          !.phase = "effects", !.runs = 0]
  /\ UNCHANGED <<baseVars, pollVars, timerVars,
                 apiVars, scanVars, notifyVars, parseVars, pageVars>>

\* one invocation of the auto-create effect; when its condition holds it calls
\* createRemindersHandler, which runs up to its await (createReminders itself
\* is synchronous and may throw)
RunEffect ==
  /\ form.phase = "effects" /\ form.runs < MaxEffectRuns
  /\ LET f == [form EXCEPT !.runs = @ + 1]
         inputs == reminderInputs(medicinesOf(f))
     IN IF effectCondition(f) /\ handlerEnters(f) /\ Len(medicinesOf(f)) = 0
        THEN /\ form' = emptyResultHandler(enterHandler(f))
             /\ UNCHANGED <<store, nextId>>
        ELSE IF effectCondition(f) /\ handlerEnters(f)
        THEN \/ /\ nextId + Len(inputs) <= MaxIds
                /\ store' = createRemindersStore(getReminders, inputs, nextId + 1)
                /\ nextId' = nextId + Len(inputs)
                /\ form' = [enterHandler(f) EXCEPT !.inFlight = @ + 1, !.created = @ + 1]
             \/ /\ form' = finallyHandler(catchHandler(enterHandler(f)))
                /\ UNCHANGED <<store, nextId>>
        ELSE /\ form' = f
             /\ UNCHANGED <<store, nextId>>
  /\ UNCHANGED <<clock, notified, deleted, pollVars, timerVars,
                 apiVars, scanVars, notifyVars, parseVars, pageVars>>

\* the effect flush ends and the microtasks run: every suspended handler
\* resumes after its await (toast, invalidateQueries, navigate or
\* onReminderCreated, any of which may throw) and reaches its finally
EndFlush ==
  /\ form.phase = "effects" /\ form.runs >= 1
  /\ LET f == [form EXCEPT !.phase = "idle", !.inFlight = 0]
     IN IF form.inFlight > 0
        THEN \/ form' = finallyHandler(f)
             \/ form' = finallyHandler(catchHandler(f))
        ELSE form' = f
  /\ UNCHANGED <<baseVars, pollVars, timerVars,
                 apiVars, scanVars, notifyVars, parseVars, pageVars>>

\* the route changes (navigate("/reminders") or the back button)
UnmountForm ==
  /\ form.mounted /\ form.phase = "idle"
  /\ form' = Unmounted
  /\ UNCHANGED <<baseVars, pollVars, timerVars,
                 apiVars, scanVars, notifyVars, parseVars, pageVars>>

\* Seen from the schedulers, a scan that ends in reminders is one step: the
\* form mounts, its effect creates the batch and the route changes.
ScanAutoCreate ==
  \E t \in TextNames :
    LET inputs == reminderInputs(extractMedicineDetails(Texts[t]))
    IN /\ ~form.mounted
       /\ Len(inputs) > 0
       /\ nextId + Len(inputs) <= MaxIds
       /\ store' = createRemindersStore(getReminders, inputs, nextId + 1)
       /\ nextId' = nextId + Len(inputs)
       /\ UNCHANGED <<clock, notified, deleted, pollVars, formVars, timerVars,
                      apiVars, scanVars, notifyVars, parseVars, pageVars>>

\* ------------------------------------------------- timer-based scheduler
\* (second half of voiceService.ts)
MaxCalls == 2

Remove(sq, k) == SubSeq(sq, 1, k - 1) \o SubSeq(sq, k + 1, Len(sq))

\* a handle setTimeout has not handed out and the Map does not hold
FreshHandle(ts, map) ==
  CHOOSE h \in 1..(Cardinality(ts) + Cardinality(DOMAIN map) + 1) :
    /\ \A t \in ts : t.handle # h
    /\ \A id \in DOMAIN map : map[id] # h

\* the state of the timer-based scheduler a synchronous call chain works on
SchedState(map, ts, cs) == [map |-> map, timeouts |-> ts, calls |-> cs]

\* updateNextDueTime(reminder) up to its await: updateReminder({...reminder, nextDue})
\* is called with ONE argument, the object
updateNextDueTime(st, reminder, fired) ==
  LET nextDue == addHours(DateOf(clock), reminder.frequency)
  IN [st EXCEPT !.calls = Append(@,
        [kind |-> "update", reminder |-> reminder, nextDue |-> nextDue,
         arg |-> ObjArg(Spread(reminder, [nextDue |-> nextDue])), fired |-> fired])]

\* a scheduleReminder that arms its timeout without activeReminders.set
scheduleReminderUnrecorded(st, reminder) ==
  IF getTime(NewDate(reminder.nextDue)) <= clock
  THEN updateNextDueTime(st, reminder, FALSE)
  ELSE [st EXCEPT
          !.timeouts = @ \cup {[handle |-> FreshHandle(st.timeouts, st.map),
                                reminder |-> reminder,
                                due |-> getTime(NewDate(reminder.nextDue))]}]

\* scheduleReminder(reminder)
scheduleReminder(st, reminder) ==
  IF getTime(NewDate(reminder.nextDue)) <= clock
  THEN updateNextDueTime(st, reminder, FALSE)
  ELSE LET h == FreshHandle(st.timeouts, st.map)
       IN [st EXCEPT
             !.timeouts = @ \cup {[handle |-> h, reminder |-> reminder,
                                   due |-> getTime(NewDate(reminder.nextDue))]},
             !.map = [id \in (DOMAIN @) \cup {reminder.id} |->
                        IF id = reminder.id THEN h ELSE @[id]]]

\* reminders.forEach(scheduleReminder)
RECURSIVE scheduleEach(_, _, _)
scheduleEach(st, rs, k) ==
  IF k > Len(rs) THEN st
  ELSE scheduleEach(scheduleReminder(st, rs[k]), rs, k + 1)

\* activeReminders.forEach(clearTimeout); activeReminders.clear()
clearActive(st) ==
  [st EXCEPT !.timeouts = {t \in @ : \A id \in DOMAIN st.map : st.map[id] # t.handle},
             !.map = <<>>]

SetSched(st) ==
  /\ activeReminders' = st.map
  /\ timeouts' = st.timeouts
  /\ calls' = st.calls

CurSched == SchedState(activeReminders, timeouts, calls)

\* timer-based initReminderScheduler up to the await inside scheduleAllReminders
InitTimerScheduler ==
  /\ ~isInitialized
  /\ Len(calls) < MaxCalls
  /\ calls' = Append(calls, [kind |-> "init"])
  /\ UNCHANGED <<baseVars, pollVars, formVars, isInitialized, intervals, activeReminders, timeouts,
                 apiVars, scanVars, notifyVars, parseVars, pageVars>>

\* the interval installed by initReminderScheduler fires: scheduleAllReminders
IntervalFire ==
  /\ intervals > 0
  /\ Len(calls) < MaxCalls
  /\ calls' = Append(calls, [kind |-> "scan"])
  /\ UNCHANGED <<baseVars, pollVars, formVars, isInitialized, intervals, activeReminders, timeouts,
                 apiVars, scanVars, notifyVars, parseVars, pageVars>>

\* fetchReminders resolves inside scheduleAllReminders: the timeouts are
\* rebuilt; when initReminderScheduler awaited it, that function goes on
ScanFetched(k) ==
  /\ k \in 1..Len(calls)
  /\ calls[k].kind \in {"init", "scan"}
  /\ SetSched(scheduleEach(clearActive(SchedState(activeReminders, timeouts, Remove(calls, k))),
                           getReminders, 1))
  /\ intervals' = IF calls[k].kind = "init" THEN intervals + 1 ELSE intervals
  /\ isInitialized' = IF calls[k].kind = "init" THEN TRUE ELSE isInitialized
  /\ UNCHANGED <<baseVars, pollVars, formVars,
                 apiVars, scanVars, notifyVars, parseVars, pageVars>>

\* a single-shot timeout fires: notify, then updateNextDueTime
TimeoutFire(t) ==
  /\ t \in timeouts
  /\ clock >= t.due
  /\ Len(notified) < MaxNotifs
  /\ notified' = sendReminderNotification(notified, t.reminder)
  /\ SetSched(updateNextDueTime(
        SchedState(activeReminders, timeouts \ {t}, calls), t.reminder, TRUE))
  /\ UNCHANGED <<clock, store, nextId, deleted, pollVars, formVars, isInitialized, intervals,
                 apiVars, scanVars, notifyVars, parseVars, pageVars>>

\* updateReminder settles inside updateNextDueTime
NextDueUpdated(k) ==
  /\ k \in 1..Len(calls)
  /\ calls[k].kind = "update"
  /\ LET c == calls[k]
         st == SchedState(activeReminders, timeouts, Remove(calls, k))
     IN IF findIndex(getReminders, c.arg) # 0
        THEN /\ store' = updateReminderStore(getReminders, c.arg, <<>>)
             /\ SetSched(scheduleReminder(st, Spread(c.reminder, [nextDue |-> c.nextDue])))
        ELSE \* rejected: caught and logged by updateNextDueTime
             /\ SetSched(st)
             /\ UNCHANGED store
  /\ UNCHANGED <<clock, nextId, notified, deleted, pollVars, formVars, isInitialized, intervals,
                 apiVars, scanVars, notifyVars, parseVars, pageVars>>

\* the window dispatches beforeunload: every listener initReminderScheduler
\* has added clears its interval and the timeouts held in activeReminders
BeforeUnload ==
  /\ unloading = "no"
  /\ IF intervals > 0
     THEN /\ unloading' = "torn"
          /\ intervals' = 0
          /\ SetSched(clearActive(CurSched))
     ELSE /\ unloading' = "unheard"
          /\ UNCHANGED <<intervals, activeReminders, timeouts, calls>>
  /\ UNCHANGED <<baseVars, pollVars, formVars, isInitialized, apiVars, scanVars,
                 notifyVars, parseVars>>

\* AddReminderManual.handleSubmit against the timer-based checkRemindersNow
ManualAddTimer ==
  \E f \in ManualFrequencies, d \in ManualDurations :
    /\ nextId < MaxIds
    /\ Len(calls) < MaxCalls
    /\ store' = createRemindersStore(getReminders, <<manualReminderData("Med", "1 tab", f, d, "")>>, nextId + 1)
    /\ nextId' = nextId + 1
    /\ calls' = Append(calls, [kind |-> "scan"])
    /\ UNCHANGED <<clock, notified, deleted, pollVars, formVars, isInitialized, intervals, activeReminders, timeouts,
                   apiVars, scanVars, notifyVars, parseVars, pageVars>>

\* ---------------------------------------------------------------- api calls
\* calls of api.ts in flight at once, and timed calls in one behaviour
MaxPending == 2
MaxApiCalls == 3

\* images selected on the scan page in one behaviour
MaxImages == 3

NoOutcome == [op |-> "none", result |-> "none"]

\* ids a caller may hold: every id handed out so far, and 0, never created
CallIds == 0..nextId

\* reminders.find(r => r.id === id) of fetchReminderById
fetchReminderByIdResult(rs, arg) ==
  IF findIndex(rs, arg) # 0
  THEN [result |-> "resolved", value |-> rs[findIndex(rs, arg)]]
  ELSE [result |-> "rejected", error |-> "Reminder not found"]

\* what updateReminder's promise settles with
updateReminderResult(rs, arg, updates) ==
  IF findIndex(rs, arg) # 0
  THEN [result |-> "resolved",
        value |-> updateReminderStore(rs, arg, updates)[findIndex(rs, arg)]]
  ELSE [result |-> "rejected", error |-> "Reminder not found"]

\* what deleteReminder's promise settles with
deleteReminderResult(rs, arg) ==
  IF findIndex(rs, arg) # 0
  THEN [result |-> "resolved"]
  ELSE [result |-> "rejected", error |-> "Reminder not found"]

\* a call of api.ts enters its setTimeout(..., 300)
CallApi(call) ==
  /\ Len(pending) < MaxPending
  /\ apiCalls < MaxApiCalls
  /\ pending' = Append(pending, call)
  /\ apiCalls' = apiCalls + 1
  /\ UNCHANGED <<baseVars, pollVars, formVars, timerVars, outcome, cleared,
                 scanVars, notifyVars, parseVars, pageVars>>

\* createReminder(reminderData): synchronous, returns the in-memory record
ApiCreateReminder ==
  \E f \in ManualFrequencies, d \in ManualDurations, notes \in {""} :
    LET data == manualReminderData("Med", "1 tab", f, d, notes)
    IN /\ nextId < MaxIds
       /\ store' = createRemindersStore(getReminders, <<data>>, nextId + 1)
       /\ nextId' = nextId + 1
       /\ outcome' = [op |-> "createReminder", result |-> "resolved",
                      value |-> newReminder(data, nextId + 1)]
       /\ cleared' = FALSE
       /\ UNCHANGED <<clock, notified, deleted, pollVars, formVars, timerVars,
                      pending, apiCalls, scanVars, notifyVars, parseVars, pageVars>>

\* createReminders(reminderInputs) of ReminderForm: synchronous
ApiCreateReminders ==
  \E t \in TextNames :
    LET inputs == reminderInputs(extractMedicineDetails(Texts[t]))
    IN /\ Len(inputs) > 0
       /\ nextId + Len(inputs) <= MaxIds
       /\ store' = createRemindersStore(getReminders, inputs, nextId + 1)
       /\ nextId' = nextId + Len(inputs)
       /\ outcome' = [op |-> "createReminders", result |-> "resolved",
                      value |-> [i \in 1..Len(inputs) |-> newReminder(inputs[i], nextId + i)]]
       /\ cleared' = FALSE
       /\ UNCHANGED <<clock, notified, deleted, pollVars, formVars, timerVars,
                      pending, apiCalls, scanVars, notifyVars, parseVars, pageVars>>

\* a dialog whose form also carries createdAt
defaultValuesWithCreatedAt(reminder) ==
  [medicineName |-> reminder.medicineName, dosage |-> reminder.dosage,
   frequency |-> reminder.frequency, duration |-> reminder.duration,
   notes |-> IF reminder.notes = NULL THEN "" ELSE reminder.notes,
   nextDue |-> NewDate(reminder.nextDue), createdAt |-> DateOf(clock)]

\* EditReminderDialog: the form's defaultValues for the reminder it was opened on
defaultValues(reminder) ==
  [medicineName |-> reminder.medicineName, dosage |-> reminder.dosage,
   frequency |-> reminder.frequency, duration |-> reminder.duration,
   notes |-> IF reminder.notes = NULL THEN "" ELSE reminder.notes,
   nextDue |-> NewDate(reminder.nextDue)]

\* the fields a user changes in the dialog before submitting
Touched ==
  {[frequency |-> 2], [nextDue |-> DateOf(clock + 2)]}

\* EditReminderDialog.onSubmit up to its await: updateReminder(reminder.id, {...data})
onSubmit ==
  \E k \in 1..Len(store), touched \in Touched :
    CallApi([op |-> "updateReminder", arg |-> IdArg(store[k].id),
             updates |-> Spread(defaultValues(store[k]), touched),
             by |-> "edit", touched |-> touched, at |-> clock])

\* a scheduler's updateReminder(reminder.id, { nextDue: newNextDue })
SchedulerUpdate ==
  \E id \in 1..nextId :
    CallApi([op |-> "updateReminder", arg |-> IdArg(id),
             updates |-> [nextDue |-> DateOf(clock + 1)],
             by |-> "scheduler", touched |-> <<>>, at |-> clock])

\* deleteReminder(id) (ReminderCard, ReminderDetail), fetchReminderById(id)
\* (ReminderDetail), deleteAllReminders() and fetchReminders() (Reminders page)
RequestDelete == \E id \in 1..nextId : CallApi([op |-> "deleteReminder", arg |-> IdArg(id)])
RequestFetchById == \E id \in CallIds : CallApi([op |-> "fetchReminderById", arg |-> IdArg(id)])
handleDeleteAllReminders == CallApi([op |-> "deleteAllReminders"])
RequestFetch == CallApi([op |-> "fetchReminders"])

\* the 300 ms timeout of the oldest call in flight runs (equal delays run in
\* the order they were set)
Settle ==
  /\ Len(pending) > 0
  /\ LET c == Head(pending)
     IN /\ pending' = Tail(pending)
        /\ CASE c.op = "updateReminder" ->
                  /\ store' = updateReminderStore(getReminders, c.arg, c.updates)
                  /\ outcome' = Spread(updateReminderResult(getReminders, c.arg, c.updates),
                                       [op |-> c.op])
                  /\ UNCHANGED <<deleted, cleared>>
             [] c.op = "deleteReminder" ->
                  /\ store' = deleteReminderStore(getReminders, c.arg)
                  /\ outcome' = Spread(deleteReminderResult(getReminders, c.arg),
                                       [op |-> c.op])
                  /\ deleted' = IF findIndex(getReminders, c.arg) # 0
                                THEN deleted \cup {c.arg.v} ELSE deleted
                  /\ UNCHANGED cleared
             [] c.op = "fetchReminderById" ->
                  /\ outcome' = Spread(fetchReminderByIdResult(getReminders, c.arg),
                                       [op |-> c.op])
                  /\ UNCHANGED <<store, deleted, cleared>>
             [] c.op = "deleteAllReminders" ->
                  /\ store' = saveReminders(<<>>)
                  /\ outcome' = [op |-> c.op, result |-> "resolved"]
                  /\ cleared' = TRUE
                  /\ UNCHANGED deleted
             [] c.op = "fetchReminders" ->
                  /\ outcome' = [op |-> c.op, result |-> "resolved",
                                 value |-> getReminders]
                  /\ UNCHANGED <<store, deleted, cleared>>
  /\ UNCHANGED <<clock, nextId, notified, pollVars, formVars, timerVars,
                 apiCalls, scanVars, notifyVars, parseVars, pageVars>>

\* sendReminderNotification without the toast in its catch block
channelsNoFallback(perm, inWindow, constructs) ==
  IF ~inWindow \/ perm # "granted"
  THEN [system |-> 0, toast |-> 1, raised |-> FALSE]
  ELSE [system |-> IF constructs THEN 1 ELSE 0, toast |-> 0, raised |-> FALSE]

\* ------------------------------------------------- notification channels
\* the body of sendReminderNotification: which channel carries the reminder.
\* inWindow is `"Notification" in window`, constructs tells whether
\* `new Notification(...)` returns instead of throwing.
NoDelivery ==
  [sent |-> FALSE, permission |-> "default", inWindow |-> TRUE, constructs |-> TRUE,
   system |-> 0, toast |-> 0, raised |-> FALSE]

newNotification(constructs) ==
  IF constructs THEN [system |-> 1, thrown |-> FALSE] ELSE [system |-> 0, thrown |-> TRUE]

channels(perm, inWindow, constructs) ==
  IF ~inWindow \/ perm # "granted"
  THEN [system |-> 0, toast |-> 1, raised |-> FALSE]
  ELSE LET n == newNotification(constructs)
       IN IF n.thrown
          THEN [system |-> n.system, toast |-> 1, raised |-> FALSE]
          ELSE [system |-> n.system, toast |-> 0, raised |-> FALSE]

\* Notification.requestPermission() answered by the user
requestNotificationPermission ==
  /\ permission = "default"
  /\ permission' \in {"granted", "denied"}
  /\ UNCHANGED <<baseVars, pollVars, formVars, timerVars, apiVars, scanVars, delivery, parseVars, pageVars>>

\* triggerReminderNotification(reminder) as the scheduler calls it
triggerReminderNotification ==
  \E j \in 1..Len(store), constructs \in BOOLEAN,
     inWindow \in (IF permission = "default" THEN BOOLEAN ELSE {TRUE}) :
    LET c == channels(permission, inWindow, constructs)
    IN /\ Len(notified) < MaxNotifs
       /\ notified' = sendReminderNotification(notified, store[j])
       /\ delivery' = [sent |-> TRUE, permission |-> permission, inWindow |-> inWindow,
                       constructs |-> constructs, system |-> c.system,
                       toast |-> c.toast, raised |-> c.raised]
       /\ UNCHANGED <<clock, store, nextId, deleted, pollVars, formVars, timerVars,
                      apiVars, scanVars, permission, parseVars, pageVars>>

\* --------------------------------------------------- ScanPrescription page
\* (the variant with the sample-data fallback)
SAMPLE_REMINDER_CARDS == "sample"

\* an Error message is the sequence of the pieces it was built from;
\* message.includes("402")
includes402(message) == \E i \in 1..Len(message) : message[i] = "402"

\* what the OCR service can answer: a text, an empty completion, an HTTP
\* error with its status and body, or nothing before the abort timer
Responses ==
  [kind : {"ok"}, text : TextNames]
    \cup {[kind |-> "empty"], [kind |-> "abort"]}
    \cup [kind : {"http"}, status : {402, 500},
          body : {<<"Payment Required">>, <<"upstream answered ", "402">>}]

\* processPrescriptionImage: the text, null, or the Error it rethrows
processPrescriptionImage(resp) ==
  LET thrown ==
        CASE resp.kind = "http" ->
               <<"Together AI API error (", ToString(resp.status), "): ">> \o resp.body
          [] resp.kind = "empty" -> <<"No text extracted from image">>
          [] resp.kind = "abort" -> <<"Request timed out.">>
          [] OTHER -> <<>>
  IN IF resp.kind = "ok" THEN [kind |-> "return", value |-> resp.text]
     ELSE IF includes402(thrown) THEN [kind |-> "throw", message |-> thrown]
     ELSE [kind |-> "return", value |-> NULL]

\* scanPrescription
scanPrescription(resp) ==
  LET r == processPrescriptionImage(resp)
  IN IF r.kind = "return" /\ r.value = NULL
     THEN [kind |-> "throw", message |-> <<"Failed to extract text from prescription">>]
     ELSE r

ScanInit ==
  [selectedImage |-> 0, extractedText |-> NULL, isScanning |-> FALSE,
   apiError |-> FALSE, failure |-> "none", files |-> 0, requests |-> 0, orphans |-> 0]

\* the "Use Sample Reminder Data" button is rendered
sampleOffered(s) == s.extractedText = NULL /\ s.apiError

\* a handleImageSelect without its isScanning test
imageSelectedUnguarded(s) ==
  [s EXCEPT !.files = @ + 1, !.selectedImage = s.files + 1, !.extractedText = NULL,
            !.apiError = FALSE, !.isScanning = TRUE, !.failure = "none",
            !.requests = @ + 1]

\* the page after handleImageSelect(file) for the next file the user picks
\* (files counts the files picked so far), the selectedImage effect and
\* handleScan up to its await
imageSelected(s) ==
  IF s.isScanning
  THEN [s EXCEPT !.files = @ + 1]
  ELSE [s EXCEPT !.files = @ + 1, !.selectedImage = s.files + 1, !.extractedText = NULL,
                 !.apiError = FALSE, !.isScanning = TRUE, !.failure = "none",
                 !.requests = @ + 1]

\* the ImageUploader is rendered and the user picks a file
handleImageSelect ==
  /\ scan.extractedText = NULL
  /\ scan.files < MaxImages
  /\ scan' = imageSelected(scan)
  /\ UNCHANGED <<baseVars, pollVars, formVars, timerVars, apiVars, notifyVars, parseVars, pageVars>>

\* scanPrescription settles: the rest of handleScan
handleScan ==
  \E resp \in Responses :
    LET r == scanPrescription(resp)
    IN /\ scan.requests > 0
       /\ scan' =
            IF r.kind = "return"
            THEN [scan EXCEPT !.extractedText = r.value, !.isScanning = FALSE,
                              !.requests = @ - 1]
            ELSE [scan EXCEPT !.apiError = includes402(r.message),
                              !.isScanning = FALSE,
                              !.requests = @ - 1,
                              !.failure = IF resp.kind = "http"
                                          THEN ToString(resp.status) ELSE resp.kind]
       /\ UNCHANGED <<baseVars, pollVars, formVars, timerVars, apiVars, notifyVars, parseVars, pageVars>>

handleUseSampleData ==
  /\ sampleOffered(scan)
  /\ scan' = [scan EXCEPT !.extractedText = SAMPLE_REMINDER_CARDS, !.apiError = FALSE]
  /\ UNCHANGED <<baseVars, pollVars, formVars, timerVars, apiVars, notifyVars, parseVars, pageVars>>

\* the user leaves the page; the next visit mounts it afresh. A request the
\* page left in flight is not cancelled (orphans counts those).
LeaveScanPage ==
  /\ [scan EXCEPT !.files = 0, !.orphans = 0] # ScanInit
  /\ scan' = [ScanInit EXCEPT !.files = scan.files,
                              !.orphans = scan.orphans + scan.requests]
  /\ UNCHANGED <<baseVars, pollVars, formVars, timerVars, apiVars, notifyVars, parseVars, pageVars>>

\* a request of a page that was left settles: its state updates are dropped
OrphanSettles ==
  /\ scan.orphans > 0
  /\ scan' = [scan EXCEPT !.orphans = @ - 1]
  /\ UNCHANGED <<baseVars, pollVars, formVars, timerVars, apiVars, notifyVars, parseVars, pageVars>>

\* ------------------------------------------------------------------- clock
\* no storage call in flight, no render in progress, no timeout overdue
StorageQuiet ==
  /\ \A p \in Procs : checks[p].pc = "idle"
  /\ Len(calls) = 0
  /\ Len(pending) = 0
  /\ form.phase = "idle"
  /\ \A t \in timeouts : clock < t.due

Tick ==
  /\ clock < MaxTime
  /\ StorageQuiet
  /\ clock' = clock + 1
  /\ UNCHANGED <<store, nextId, notified, deleted, pollVars, formVars, timerVars,
                 apiVars, scanVars, notifyVars, parseVars, pageVars>>

\* ---------------------------------------------------------- specifications
Init ==
  /\ clock = 0
  /\ store = <<>>
  /\ nextId = 0
  /\ notified = <<>>
  /\ deleted = {}
  /\ pollTimers = 0
  /\ pollStarted = FALSE
  /\ checks = [p \in Procs |-> IdleCheck]
  /\ form = Unmounted
  /\ isInitialized = FALSE
  /\ intervals = 0
  /\ activeReminders = <<>>
  /\ timeouts = {}
  /\ calls = <<>>
  /\ pending = <<>>
  /\ outcome = NoOutcome
  /\ cleared = FALSE
  /\ apiCalls = 0
  /\ scan = ScanInit
  /\ permission = "default"
  /\ delivery = NoDelivery
  /\ parsed = NoParse
  /\ labelled = NoLabel
  /\ unloading = "no"

\* the app with the poll-based scheduler
Next ==
  \/ InitPollScheduler
  \/ \E p \in Procs : PollTimerFire(p)
  \/ \E p \in Procs : CheckFetched(p)
  \/ \E p \in Procs : CheckUpdated(p)
  \/ ManualAdd
  \/ ScanAutoCreate
  \/ EditReminder
  \/ DeleteReminder
  \/ Tick

Spec == Init /\ [][Next]_vars

\* the app with the timer-based scheduler
NextTimer ==
  \/ InitTimerScheduler
  \/ IntervalFire
  \/ \E k \in 1..MaxCalls : ScanFetched(k)
  \/ \E t \in timeouts : TimeoutFire(t)
  \/ \E k \in 1..MaxCalls : NextDueUpdated(k)
  \/ BeforeUnload
  \/ ManualAddTimer
  \/ ScanAutoCreate
  \/ EditReminder
  \/ DeleteReminder
  \/ Tick

SpecTimer == Init /\ [][NextTimer]_vars

\* the scan page's ReminderForm over the stored collection
NextForm ==
  \/ \E t \in TextNames : MountForm(t)
  \/ Rerender
  \/ RunEffect
  \/ EndFlush
  \/ UnmountForm
  \/ EditReminder
  \/ DeleteReminder
  \/ Tick

SpecForm == Init /\ [][NextForm]_vars

\* the callers of api.ts over the stored collection
NextApi ==
  \/ ApiCreateReminder
  \/ ApiCreateReminders
  \/ onSubmit
  \/ SchedulerUpdate
  \/ RequestDelete
  \/ RequestFetchById
  \/ handleDeleteAllReminders
  \/ RequestFetch
  \/ Settle
  \/ Tick

SpecApi == Init /\ [][NextApi]_vars

\* the scan page up to the point where it shows the ReminderForm
NextScan ==
  \/ handleImageSelect
  \/ handleScan
  \/ handleUseSampleData
  \/ LeaveScanPage
  \/ OrphanSettles
  \/ Tick

SpecScan == Init /\ [][NextScan]_vars

\* reminders being announced under the browser's notification permission
NextNotify ==
  \/ ApiCreateReminder
  \/ requestNotificationPermission
  \/ triggerReminderNotification
  \/ Tick

SpecNotify == Init /\ [][NextNotify]_vars

\* the parser and the frequency conversion over the generated inputs
NextParse ==
  \/ ParseText
  \/ ParseTextOlder
  \/ FrequencyHours

SpecParse == Init /\ [][NextParse]_vars

\* ------------------------------------------------------------------ claims
NotifiedCount(log, id) == Cardinality({k \in 1..Len(log) : log[k].id = id})

\* C1: a reminder is notified at most once for one stored nextDue value:
\* any two notifications of the same reminder found different stored nextDue.
C1_OncePerStoredDue ==
  \A a, b \in 1..Len(notified) :
    (a < b /\ notified[a].id = notified[b].id) => notified[a].due # notified[b].due

\* C2: once the poll-based scheduler is started, a due-check is always
\* pending: a poll timer is armed or a check is running (and will re-arm).
C2_PollStaysArmed ==
  pollStarted => (pollTimers > 0 \/ \E p \in Procs : checks[p].pc # "idle")

\* C3: when a due-check has persisted the new nextDue of a reminder it fired,
\* that stored nextDue is strictly later than the current time, so a second
\* check at the same instant does not fire it again.
C3_FiredIsFuture ==
  [][\A p \in Procs :
       (/\ checks[p].pc = "update"
        /\ checks'[p] # checks[p]
        /\ findIndex(store', IdArg(checks[p].reminders[checks[p].i].id)) # 0)
       => StoredDue(store', checks[p].reminders[checks[p].i].id) > clock']_vars

\* C4: a due-check cycle that has fired a reminder ends only after the last
\* due reminder of its snapshot, and it ends by arming the next check, also
\* when updateReminder was rejected for one of them.
C4_CycleSurvivesFailure ==
  [][\A p \in Procs :
       (checks[p].pc = "update" /\ checks'[p].pc = "idle")
       => /\ DueFrom(checks[p].reminders, checks[p].now, checks[p].i + 1) = {}
          /\ pollTimers' = pollTimers + 1]_vars

\* C5: once deleteReminder(id) has completed, no notification for id is
\* dispatched.
C5_NoNotifyAfterDelete ==
  [][\A id \in deleted : NotifiedCount(notified', id) = NotifiedCount(notified, id)]_vars

\* the step in which call k of the timer-based scheduler settles
Settles(k) == k \in 1..Len(calls) /\ calls' = Remove(calls, k)

\* C6: a reminder the timer-based scan found past due (and so did not notify)
\* has, when the scan's update for it settles, a stored nextDue in the future.
C6_PastDueCorrected ==
  [][\A k \in 1..Len(calls) :
       (/\ calls[k].kind = "update" /\ ~calls[k].fired
        /\ Settles(k)
        /\ findIndex(store', IdArg(calls[k].reminder.id)) # 0)
       => StoredDue(store', calls[k].reminder.id) > clock']_vars

\* C7: when a single-shot timer has fired and its update settles, the
\* notification was dispatched, the recomputed nextDue is stored under the
\* reminder's id and a new timer is armed and recorded for the reminder.
C7_FiredTimerPersistsAndRearms ==
  [][\A k \in 1..Len(calls) :
       (/\ calls[k].kind = "update" /\ calls[k].fired
        /\ Settles(k)
        /\ findIndex(store, IdArg(calls[k].reminder.id)) # 0)
       => /\ NotifiedCount(notified, calls[k].reminder.id) > 0
          /\ store'[findIndex(store', IdArg(calls[k].reminder.id))].nextDue
               = toISOString(calls[k].nextDue)
          /\ \E t \in timeouts' :
               /\ t.reminder.id = calls[k].reminder.id
               /\ calls[k].reminder.id \in DOMAIN activeReminders'
               /\ activeReminders'[calls[k].reminder.id] = t.handle]_vars

\* the instant of the latest notification of reminder id
LastNotifiedAt(id) ==
  notified[CHOOSE a \in 1..Len(notified) :
             /\ notified[a].id = id
             /\ \A b \in (a + 1)..Len(notified) : notified[b].id # id].at

\* C8: when the update that follows a firing at instant F settles for a
\* reminder that is still stored, its stored nextDue is F + frequency hours.
C8_DueFromFiringInstant ==
  [][\A k \in 1..Len(calls) :
       (/\ calls[k].kind = "update" /\ calls[k].fired
        /\ Settles(k)
        /\ findIndex(store, IdArg(calls[k].reminder.id)) # 0)
       => StoredDue(store', calls[k].reminder.id)
            = LastNotifiedAt(calls[k].reminder.id) + calls[k].reminder.frequency]_vars

\* C9: every stored reminder has frequency >= 1, duration >= 1 and a
\* non-empty medicineName and dosage.
C9_StoredFieldsValid ==
  \A k \in 1..Len(store) :
    /\ store[k].frequency >= 1
    /\ store[k].duration >= 1
    /\ store[k].medicineName # ""
    /\ store[k].dosage # ""

\* C10: for one mounted ReminderForm, however often the auto-create effect
\* runs, at most one create-batch is in flight, createReminders succeeds at
\* most once, and no more reminders are stored than medicines were parsed.
C10_SingleCreateBatch ==
  form.mounted =>
    /\ form.inFlight <= 1
    /\ form.created <= 1
    /\ nextId - form.idsAtMount <= Len(medicinesOf(form))

\* C10 witness: the effect ran a second time while the batch was in flight
C10_EffectReranInFlight ==
  form.mounted /\ form.runs = 2 /\ form.inFlight = 1 /\ form.created = 1

\* the step in which the oldest api.ts call in flight, of kind op, settles
Settling(op) ==
  /\ Len(pending) > 0
  /\ pending' = Tail(pending)
  /\ Head(pending).op = op

\* C11: updateReminder, deleteReminder and fetchReminderById that execute for
\* an id absent from the collection reject with "Reminder not found" and
\* leave the stored collection as it was.
C11_AbsentIdRejects ==
  [][\A op \in {"updateReminder", "deleteReminder", "fetchReminderById"} :
       (Settling(op) /\ Head(pending).arg.v \notin StoredIds)
       => /\ outcome'.result = "rejected"
          /\ outcome'.error = "Reminder not found"
          /\ store' = store]_vars

\* C11 witness: an update executed after its reminder was deleted, and rejected
C11_UpdateAfterDeleteRejected ==
  /\ outcome.op = "updateReminder" /\ outcome.result = "rejected"
  /\ deleted # {} /\ ~cleared

\* C12: no two reminders of the stored collection have the same id.
C12_UniqueIds ==
  \A i, j \in 1..Len(store) : i # j => store[i].id # store[j].id

\* C12 witness: two stored reminders, the latest call an update that resolved
C12_TwoStoredAfterUpdate ==
  Len(store) = 2 /\ outcome.op = "updateReminder" /\ outcome.result = "resolved"

\* C13: an updateReminder that settles leaves id and createdAt of every
\* stored reminder as they were.
C13_IdAndCreatedAtKept ==
  [][Settling("updateReminder")
     => /\ Len(store') = Len(store)
        /\ \A k \in 1..Len(store) :
             /\ store'[k].id = store[k].id
             /\ store'[k].createdAt = store[k].createdAt]_vars

\* C13 witness: a user edit of a reminder created at an earlier time resolved
C13_EditedLater ==
  /\ outcome.op = "updateReminder" /\ outcome.result = "resolved"
  /\ outcome.value.frequency = 2
  /\ getTime(NewDate(outcome.value.createdAt)) < clock

\* C14: every reminder a create step adds to the collection has
\* nextDue = createdAt + frequency hours.
C14_CreatedDueIsNowPlusFrequency ==
  [][nextId' > nextId
     => \A k \in 1..Len(store') :
          store'[k].id > nextId
          => getTime(NewDate(store'[k].nextDue))
               = getTime(NewDate(store'[k].createdAt)) + store'[k].frequency]_vars

\* C14 witness: a manually entered and a parsed reminder are stored, the
\* parsed one created after time 0
C14_ManualAndParsedStored ==
  \E i, j \in 1..Len(store) :
    /\ store[i].medicineName = "Med"
    /\ store[j].medicineName = "C"
    /\ getTime(NewDate(store[j].createdAt)) > 0

\* C15: when an edit's update resolves, the stored nextDue is the due
\* timestamp the user supplied; when the user changed the frequency and
\* supplied no due timestamp, it is edit time + the new frequency in hours.
C15_EditedDue ==
  [][(/\ Settling("updateReminder")
      /\ Head(pending).by = "edit"
      /\ outcome'.result = "resolved")
     => LET c == Head(pending)
            due == StoredDue(store', c.arg.v)
        IN IF "nextDue" \in DOMAIN c.touched
           THEN due = getTime(c.touched.nextDue)
           ELSE ("frequency" \in DOMAIN c.touched /\ c.touched.frequency # Stored(c.arg.v).frequency)
                => due = c.at + c.touched.frequency]_vars

\* the records the latest create returned
CreatedRecords ==
  IF outcome.op = "createReminder" THEN {outcome.value}
  ELSE IF outcome.op = "createReminders"
       THEN {outcome.value[i] : i \in 1..Len(outcome.value)}
       ELSE {}

\* equal in every field, the two timestamps compared by value
SameReminder(a, b) ==
  /\ DOMAIN a = DOMAIN b
  /\ \A f \in DOMAIN a \ {"nextDue", "createdAt"} : a[f] = b[f]
  /\ getTime(NewDate(a.nextDue)) = getTime(NewDate(b.nextDue))
  /\ getTime(NewDate(a.createdAt)) = getTime(NewDate(b.createdAt))

\* C16: a fetchReminderById that settles right after a create, for an id the
\* create returned, resolves with a record equal to the created one.
C16_CreateFetchRoundTrip ==
  [][\A r \in CreatedRecords :
       (Settling("fetchReminderById") /\ Head(pending).arg.v = r.id)
       => /\ outcome'.result = "resolved"
          /\ SameReminder(outcome'.value, r)]_vars

\* C16 witness: a fetch by id resolved and no other timed call was ever made
C16_FetchedUntouched ==
  /\ outcome.op = "fetchReminderById" /\ outcome.result = "resolved"
  /\ apiCalls = 1
  /\ outcome.value.notes = NULL

\* C17: from the completion of deleteAllReminders until the next create the
\* stored collection is empty and a fetchReminders that settles returns the
\* empty list, whatever calls were still in flight.
C17_ClearedStaysEmpty ==
  cleared =>
    /\ store = <<>>
    /\ outcome.op = "fetchReminders" => outcome.value = <<>>

\* C17 witness: a scheduler update that was in flight behind deleteAllReminders
\* executed after it
C17_UpdateAfterDeleteAll ==
  /\ cleared /\ nextId > 0 /\ deleted = {}
  /\ outcome.op = "updateReminder"

\* C18: a ReminderForm mounted over a text with no parsed medicine, once its
\* effects have run, has created nothing and offers manual entry.
C18_EmptyParseOffersManual ==
  (form.mounted /\ Len(medicinesOf(form)) = 0 /\ form.phase = "idle")
  => /\ form.created = 0
     /\ nextId = form.idsAtMount
     /\ offersManualEntry(form)

\* C19: after a scan the sample dataset is offered exactly when the OCR call
\* failed with HTTP status 402.
C19_SampleOfferedIffQuota ==
  (~scan.isScanning /\ scan.extractedText = NULL)
  => (sampleOffered(scan) <=> scan.failure = "402")

\* C20: every sendReminderNotification call uses exactly one channel: the
\* system notification when permission is granted and the notification can
\* be constructed, the in-app toast otherwise; it raises nothing.
C20_ExactlyOneChannel ==
  delivery.sent =>
    /\ delivery.system + delivery.toast = 1
    /\ delivery.system = 1 <=>
         (delivery.inWindow /\ delivery.permission = "granted" /\ delivery.constructs)
    /\ ~delivery.raised

\* a call made with permission granted whose construction failed
C20_FellBackToToast ==
  /\ delivery.sent
  /\ delivery.permission = "granted"
  /\ ~delivery.constructs
  /\ delivery.toast = 1

\* the matches of the strategy the result of the latest parse came from
usedMatches(text) ==
  IF Len(text.format1) > 0 THEN text.format1
  ELSE IF Len(text.format2) > 0 THEN text.format2
  ELSE text.table

NonZero(ddd) == Cardinality({k \in 1..Len(ddd) : ddd[k] # 0})

\* C21: whatever strategy produced an entry, a dosage with a D-D-D pattern
\* gets the label "thrice daily", "twice daily" or "once daily" according to
\* whether three, two or one of its digits are nonzero (stated for the
\* current parser and for dosages holding no slot word and no "N hourly").
C21_DddLabel ==
  (parsed.called /\ parsed.variant = "current") =>
    \A k \in 1..Len(parsed.medicines) :
      LET g == usedMatches(parsed.text)[k].dosage
          ddd == g.ddd
      IN (ddd # <<>> /\ NonZero(ddd) >= 1 /\ g.hourly = NoNum /\ ~g.morning /\ ~g.night)
         => parsed.medicines[k].frequency =
              (CASE NonZero(ddd) = 3 -> <<"thrice daily">>
                 [] NonZero(ddd) = 2 -> <<"twice daily">>
                 [] OTHER -> <<"once daily">>)

\* C22: whatever strategy produced an entry, a duration text "<n> weeks"
\* gives 7n days, "<n> months" gives 30n days and a bare "month" gives 30
\* (stated for the current parser).
C22_WeeksAndMonths ==
  (parsed.called /\ parsed.variant = "current") =>
    \A k \in 1..Len(parsed.medicines) :
      LET d == usedMatches(parsed.text)[k].duration
      IN /\ (d.days = NoNum /\ d.month = NoNum /\ d.weeks >= 0)
              => parsed.medicines[k].duration = 7 * d.weeks
         /\ (d.days = NoNum /\ d.weeks = NoNum /\ d.month >= 0)
              => parsed.medicines[k].duration = 30 * d.month
         /\ (d.days = NoNum /\ d.weeks = NoNum /\ d.month = BareMonth)
              => parsed.medicines[k].duration = 30

C24_OneStrategy ==
  parsed.called =>
    LET t == parsed.text
        r == parsed.medicines
    IN IF parsed.variant = "current"
       THEN /\ Len(t.format1) > 0
                 => r = [k \in 1..Len(t.format1) |-> format1Medicine(t.format1[k])]
            /\ (Len(t.format1) = 0 /\ Len(t.format2) > 0)
                 => r = [k \in 1..Len(t.format2) |-> format2Medicine(t.format2[k])]
            /\ (Len(t.format1) = 0 /\ Len(t.format2) = 0)
                 => r = [k \in 1..Len(t.table) |-> tableMedicine(t.table[k])]
       ELSE LET rows == SelectSeq(t.rows, LAMBDA x : x.named)
            IN /\ Len(rows) > 0 => r = [k \in 1..Len(rows) |-> rowMedicine(rows[k])]
               /\ (Len(rows) = 0 /\ Len(t.list) > 0)
                    => r = [k \in 1..Len(t.list) |-> lineMedicine(t.list[k])]
               /\ (Len(rows) = 0 /\ Len(t.list) = 0)
                    => r = [k \in 1..Len(t.fallback) |-> lineMedicine(t.fallback[k])]

\* a text in which two strategies find something
C24_LowerStrategySkipped ==
  /\ parsed.called
  /\ parsed.variant = "current"
  /\ Len(parsed.text.format1) = 0
  /\ Len(parsed.text.format2) > 0
  /\ Len(parsed.text.table) > 0
  /\ Len(parsed.medicines) = Len(parsed.text.format2)

C26_TeardownDisarms == unloading = "torn" => (intervals = 0 /\ timeouts = {})

\* C28: at most one single-shot timeout is armed for a reminder id, and every
\* armed timeout is the one activeReminders holds for its reminder.
C28_OneRecordedTimerPerId ==
  /\ \A t1, t2 \in timeouts : t1.reminder.id = t2.reminder.id => t1 = t2
  /\ \A t \in timeouts :
       /\ t.reminder.id \in DOMAIN activeReminders
       /\ activeReminders[t.reminder.id] = t.handle

\* scheduleAllReminders has rebuilt the timeouts while an updateNextDueTime
\* for a reminder with an armed timeout is awaiting storage
C28_RescanDuringUpdate ==
  \E k \in 1..Len(calls), t \in timeouts :
    /\ calls[k].kind = "update"
    /\ calls[k].reminder.id = t.reminder.id

\* C30: initReminderScheduler installs at most one interval (and with it one
\* beforeunload listener), however its calls interleave.
C30_OneInterval == intervals <= 1

\* C27: the step in which a due-check's updateReminder settles changes, in
\* the stored collection, only the nextDue of the reminder the check fired.
C27_OnlyNextDueWritten ==
  [][\A p \in Procs :
       (checks[p].pc = "update" /\ checks'[p] # checks[p])
       => /\ Len(store') = Len(store)
          /\ \A k \in 1..Len(store) :
               IF store[k].id = checks[p].reminders[checks[p].i].id
               THEN \A f \in (DOMAIN store[k]) \ {"nextDue"} : store'[k][f] = store[k][f]
               ELSE store'[k] = store[k]]_vars

\* a check has persisted the nextDue of the first reminder of its snapshot
\* after a user edit of that reminder that came later than the snapshot
C27_EditKeptByScheduler ==
  \E p \in Procs, k \in 1..Len(store) :
    /\ checks[p].pc = "update" /\ checks[p].i = 2
    /\ getTime(NewDate(checks[p].reminders[1].nextDue)) <= checks[p].now
    /\ store[k].id = checks[p].reminders[1].id
    /\ store[k].medicineName # checks[p].reminders[1].medicineName
    /\ store[k].frequency # checks[p].reminders[1].frequency
    /\ store[k].nextDue = toISOString(addHours(DateOf(checks[p].now), checks[p].reminders[1].frequency))

====
